---- MODULE Spec2Model ----
(***************************************************************************)
(* VeriFund AI service (src/ai-service): the offline training pipeline     *)
(* (generate_data.py, train.py) and the FastAPI service (main.py) with its *)
(* three handlers: /score, /suggest-price and /webhook/github/{id}.        *)
(*                                                                         *)
(* Numbers: a feature value, a model output or an impact is kept as an     *)
(* integer count of thousandths (0.85 is 850, 25 is 25000, the indicator 1 *)
(* is 1000); a value rounded to two decimals is a count of hundredths.  A  *)
(* raw price prediction is a count of tenths of a rupee, a price a count   *)
(* of rupees.                                                              *)
(***************************************************************************)
EXTENDS Integers, Sequences, FiniteSets, TLC

VARIABLES
    creator_data,   \* creator_data.csv as generate_data.py wrote it (no rows: not yet written)
    feature_names,  \* columns the persisted models were fitted on (<<>>: train.py has not run)
    http,           \* the /score or /suggest-price request being answered, with its response
    hooks           \* the webhook calls in flight, by slot

vars == <<creator_data, feature_names, http, hooks>>

---------------------------------------------------------------------------
(* Strings.  TLC gives Len, \o and SubSeq on strings; the rest is built    *)
(* from them the way the Python str methods work.                          *)

CharAt(s, i) == SubSeq(s, i, i)

UPPERCASE == "ABCDEFGHIJKLMNOPQRSTUVWXYZ"

LOWERCASE == "abcdefghijklmnopqrstuvwxyz"

\* The ASCII characters that occur in the program's strings, in code-point order.
ASCII == " -./0123456789:ABCDEFGHIJKLMNOPQRSTUVWXYZ_abcdefghijklmnopqrstuvwxyz"

\* The rank of c by code point among the characters of ASCII (0: not one of them).
Ord(c) ==
    IF \E i \in 1..Len(ASCII) : CharAt(ASCII, i) = c
    THEN CHOOSE i \in 1..Len(ASCII) : CharAt(ASCII, i) = c
    ELSE 0

\* str.lower() on one character.
LowerChar(c) ==
    IF \E i \in 1..Len(UPPERCASE) : CharAt(UPPERCASE, i) = c
    THEN CharAt(LOWERCASE, CHOOSE i \in 1..Len(UPPERCASE) : CharAt(UPPERCASE, i) = c)
    ELSE c

RECURSIVE LowerFrom(_, _)
LowerFrom(s, i) ==
    IF i > Len(s) THEN "" ELSE LowerChar(CharAt(s, i)) \o LowerFrom(s, i + 1)

\* str.lower()
Lower(s) == LowerFrom(s, 1)

\* Python's `k in s` on strings.
Contains(s, k) ==
    \E i \in 1..(Len(s) - Len(k) + 1) : SubSeq(s, i, i + Len(k) - 1) = k

\* str.startswith
StartsWith(s, p) == Len(s) >= Len(p) /\ SubSeq(s, 1, Len(p)) = p

RECURSIVE ReplaceFrom(_, _, _, _)
ReplaceFrom(s, old, new, i) ==
    IF i > Len(s) THEN ""
    ELSE IF Len(old) > 0 /\ i + Len(old) - 1 <= Len(s) /\ SubSeq(s, i, i + Len(old) - 1) = old
         THEN new \o ReplaceFrom(s, old, new, i + Len(old))
         ELSE CharAt(s, i) \o ReplaceFrom(s, old, new, i + 1)

\* str.replace(old, new), every occurrence, left to right.
Replace(s, old, new) == ReplaceFrom(s, old, new, 1)

RECURSIVE StrLessFrom(_, _, _)
StrLessFrom(a, b, i) ==
    IF i > Len(a) THEN i <= Len(b)
    ELSE IF i > Len(b) THEN FALSE
    ELSE IF CharAt(a, i) = CharAt(b, i) THEN StrLessFrom(a, b, i + 1)
    ELSE Ord(CharAt(a, i)) < Ord(CharAt(b, i))

\* a < b on Python strings (lexicographic by code point).
StrLess(a, b) == StrLessFrom(a, b, 1)

RECURSIVE SortedStrings(_)
\* sorted(S) for a set of strings.
SortedStrings(S) ==
    IF S = {} THEN <<>>
    ELSE LET m == CHOOSE x \in S : \A y \in S \ {x} : StrLess(x, y)
         IN  <<m>> \o SortedStrings(S \ {m})

---------------------------------------------------------------------------
(* Numbers.                                                                *)

Abs(n) == IF n < 0 THEN -n ELSE n

\* n / d rounded to the nearest integer, ties to the even one (Python's round).
RoundDiv(n, d) ==
    LET q == n \div d
        r == n % d
    IN  IF 2 * r < d THEN q
        ELSE IF 2 * r > d THEN q + 1
        ELSE IF q % 2 = 0 THEN q ELSE q + 1

\* round(x, 2): thousandths in, hundredths out.
Round2(x) == RoundDiv(x, 10)

Max(a, b) == IF a >= b THEN a ELSE b

Min(a, b) == IF a <= b THEN a ELSE b

---------------------------------------------------------------------------
(* Data frames: the column names in order, and the rows as functions from  *)
(* column name to value.                                                   *)

ColumnSet(df) == {df.columns[i] : i \in 1..Len(df.columns)}

\* DataFrame.drop(names, axis=1)
Drop(df, names) ==
    LET keep == SelectSeq(df.columns, LAMBDA c : c \notin names)
    IN  [columns |-> keep,
         rows |-> [r \in 1..Len(df.rows) |->
                     [c \in {keep[i] : i \in 1..Len(keep)} |-> df.rows[r][c]]]]

\* pd.get_dummies(df, columns=[field], drop_first=...): the other columns in
\* their order, then one indicator column per value of the field that occurs
\* in the frame, in sorted order (the first of them left out by drop_first).
GetDummies(df, field, drop_first) ==
    LET rest   == SelectSeq(df.columns, LAMBDA c : c # field)
        values == SortedStrings({df.rows[r][field] : r \in 1..Len(df.rows)})
        levels == IF drop_first /\ Len(values) > 0 THEN Tail(values) ELSE values
        dummy  == [i \in 1..Len(levels) |-> field \o "_" \o levels[i]]
        cols   == rest \o dummy
    IN  [columns |-> cols,
         rows |-> [r \in 1..Len(df.rows) |->
                     [c \in {cols[i] : i \in 1..Len(cols)} |->
                        IF c \in {rest[i] : i \in 1..Len(rest)}
                        THEN df.rows[r][c]
                        ELSE IF \E i \in 1..Len(levels) :
                                   dummy[i] = c /\ levels[i] = df.rows[r][field]
                             THEN 1000 ELSE 0]]]

\* Mutant of Reindex: only the requested columns the frame already has are
\* kept (a column selection instead of a reindex), none is added.
ReindexExistingOnly(df, columns, fill_value) ==
    LET keep == SelectSeq(columns, LAMBDA c : c \in ColumnSet(df))
    IN  [columns |-> keep,
         rows |-> [r \in 1..Len(df.rows) |->
                     [c \in {keep[i] : i \in 1..Len(keep)} |-> df.rows[r][c]]]]

\* Mutant of Reindex: the frame's values are laid under the new column names
\* by position, the first value under the first name, and the rest filled.
ReindexByPosition(df, columns, fill_value) ==
    [columns |-> columns,
     rows |-> [r \in 1..Len(df.rows) |->
                 [c \in {columns[i] : i \in 1..Len(columns)} |->
                    LET i == CHOOSE j \in 1..Len(columns) : columns[j] = c
                    IN  IF i <= Len(df.columns) THEN df.rows[r][df.columns[i]]
                        ELSE fill_value]]]

\* DataFrame.reindex(columns=columns, fill_value=fill_value)
Reindex(df, columns, fill_value) ==
    [columns |-> columns,
     rows |-> [r \in 1..Len(df.rows) |->
                 [c \in {columns[i] : i \in 1..Len(columns)} |->
                    IF c \in ColumnSet(df) THEN df.rows[r][c] ELSE fill_value]]]

\* The values of row r in column order (what the model is handed).
RowValues(df, r) == [i \in 1..Len(df.columns) |-> df.rows[r][df.columns[i]]]

---------------------------------------------------------------------------
(* The offline pipeline: generate_data.py writes creator_data.csv, and     *)
(* train.py fits both models on the same frame X.                          *)

\* generate_data.py: the category values rows are drawn from.
categories == <<"UI/UX Design", "Web Development", "Mobile Development", "Graphic Design">>

\* generate_data.py: the columns of creator_data.csv, in order.
DATASET_COLUMNS ==
    <<"projects_completed", "tenure_months", "portfolio_strength",
      "on_time_delivery_percent", "avg_client_rating", "rating_trajectory",
      "dispute_rate", "project_category", "project_success_score",
      "project_price_inr">>

\* One row of creator_data.csv of the given category (the numbers do not
\* decide any column name).
DatasetRow(cat) ==
    [projects_completed |-> 25000, tenure_months |-> 36000,
     portfolio_strength |-> 850, on_time_delivery_percent |-> 950,
     avg_client_rating |-> 4700, rating_trajectory |-> 150,
     dispute_rate |-> 30, project_category |-> cat,
     project_success_score |-> 80000, project_price_inr |-> 250000000]

\* The frame generate_data.py saves when np.random.choice drew exactly the
\* categories `cats`.
Dataset(cats) ==
    LET drawn == SelectSeq(categories, LAMBDA c : c \in cats)
    IN  [columns |-> DATASET_COLUMNS,
         rows |-> [r \in 1..Len(drawn) |-> DatasetRow(drawn[r])]]

\* train.py: X, the frame both models are fitted on.
TrainX(df) ==
    GetDummies(Drop(df, {"project_success_score", "project_price_inr"}),
               "project_category", FALSE)

NoFrame == [columns |-> <<>>, rows |-> <<>>]

\* generate_data.py: df.to_csv('creator_data.csv').
GenerateData(cats) ==
    /\ creator_data = NoFrame
    /\ creator_data' = Dataset(cats)
    /\ UNCHANGED <<feature_names, http, hooks>>

\* train.py: pd.read_csv('creator_data.csv'), then both models fitted on X
\* and dumped; feature_names is the column sequence they were fitted on.
Train ==
    /\ creator_data # NoFrame
    /\ feature_names = <<>>
    /\ feature_names' = TrainX(creator_data).columns
    /\ UNCHANGED <<creator_data, http, hooks>>

---------------------------------------------------------------------------
(* main.py: the schema and the request model.                              *)

\* Mutant of TRAINING_COLUMNS: the expansion columns listed in the order
\* generate_data.py lists the categories instead of get_dummies' sorted order.
TRAINING_COLUMNS_AsGenerated ==
    <<"projects_completed",
      "tenure_months",
      "portfolio_strength",
      "on_time_delivery_percent",
      "avg_client_rating",
      "rating_trajectory",
      "dispute_rate",
      "project_category_UI/UX Design",
      "project_category_Web Development",
      "project_category_Mobile Development",
      "project_category_Graphic Design">>

TRAINING_COLUMNS ==
    <<"projects_completed",
      "tenure_months",
      "portfolio_strength",
      "on_time_delivery_percent",
      "avg_client_rating",
      "rating_trajectory",
      "dispute_rate",
      "project_category_Graphic Design",
      "project_category_Mobile Development",
      "project_category_UI/UX Design",
      "project_category_Web Development">>

\* CreatorData: the fields in declaration order (the order of creator.dict()).
CREATOR_FIELDS ==
    <<"projects_completed", "tenure_months", "portfolio_strength",
      "on_time_delivery_percent", "avg_client_rating", "rating_trajectory",
      "dispute_rate", "project_category">>

\* CreatorData: the ge/le constraint of each numeric field.
FIELD_RANGE ==
    [projects_completed       |-> [ge |-> 5000,  le |-> 50000],
     tenure_months            |-> [ge |-> 6000,  le |-> 60000],
     portfolio_strength       |-> [ge |-> 500,   le |-> 1000],
     on_time_delivery_percent |-> [ge |-> 700,   le |-> 1000],
     avg_client_rating        |-> [ge |-> 3500,  le |-> 5000],
     rating_trajectory        |-> [ge |-> -200,  le |-> 300],
     dispute_rate             |-> [ge |-> 0,     le |-> 150]]

\* Mutant of ValidCreator: project_category validated as an enumeration of
\* the generated categories.
ValidCreatorEnum(creator) ==
    /\ \A f \in DOMAIN FIELD_RANGE :
          FIELD_RANGE[f].ge <= creator[f] /\ creator[f] <= FIELD_RANGE[f].le
    /\ \E i \in 1..Len(categories) : categories[i] = creator.project_category

\* Whether FastAPI's validation of the body against CreatorData passes:
\* every numeric field within its range; project_category is any str.
ValidCreator(creator) ==
    \A f \in DOMAIN FIELD_RANGE :
        FIELD_RANGE[f].ge <= creator[f] /\ creator[f] <= FIELD_RANGE[f].le

\* pd.DataFrame([creator.dict()])
CreatorFrame(creator) == [columns |-> CREATOR_FIELDS, rows |-> <<creator>>]

\* Mutant of ScoreFrame: get_dummies called with drop_first=True.
ScoreFrameDropFirst(creator) ==
    Reindex(GetDummies(CreatorFrame(creator), "project_category", TRUE),
            TRAINING_COLUMNS, 0)

\* score_creator, steps 6a-6c: the frame handed to model.predict.
ScoreFrame(creator) ==
    Reindex(GetDummies(CreatorFrame(creator), "project_category", FALSE),
            TRAINING_COLUMNS, 0)

\* Mutant of PriceFrame: the pricing path hands over the encoded frame
\* without reindexing it to the schema.
PriceFrameAsEncoded(creator) ==
    GetDummies(CreatorFrame(creator), "project_category", FALSE)

\* suggest_price, steps 7a-7c: the frame handed to price_model.predict.
PriceFrame(creator) ==
    Reindex(GetDummies(CreatorFrame(creator), "project_category", FALSE),
            TRAINING_COLUMNS, 0)

Idle == [endpoint |-> "none", status |-> 0, df |-> NoFrame]

\* The service answers only once both joblib files exist (main.py raises at
\* import otherwise).
Serving == feature_names # <<>>

\* A request body that fails validation: FastAPI answers 422 and the handler
\* is never entered.
Rejected(endpoint, creator) ==
    [endpoint |-> endpoint, creator |-> creator, status |-> 422, df |-> NoFrame,
     body |-> [detail |-> "validation error"]]

\* The handler's except branch: HTTPException(status_code=500, detail=prefix: str(e)).
Failed(endpoint, creator, df, prefix, e) ==
    [endpoint |-> endpoint, creator |-> creator, status |-> 500, df |-> df,
     body |-> [detail |-> prefix \o ": " \o e]]

---------------------------------------------------------------------------
(* POST /suggest-price                                                     *)

\* Step 7d: int(round(price_prediction[0])), tenths of a rupee to rupees.
SuggestedPrice(prediction) == RoundDiv(prediction, 10)

\* Step 7e: int(round(suggested_price * (1 - 0.12))), then max(50000, .).
LowerBound(suggested_price) == Max(50000, RoundDiv(suggested_price * 88, 100))

\* Step 7e: int(round(suggested_price * (1 + 0.12))), then min(500000, .).
UpperBound(suggested_price) == Min(500000, RoundDiv(suggested_price * 112, 100))

\* Step 7f: the response body.
PriceResponse(prediction) ==
    LET suggested_price == SuggestedPrice(prediction)
    IN  [suggested_price |-> suggested_price,
         price_range |-> <<LowerBound(suggested_price), UpperBound(suggested_price)>>]

\* The whole handler, for a body `creator` and the outcome `predicted` of
\* price_model.predict ([raises, value]).
\* Besides the response, the record keeps what the handler went through: the
\* outcome of the model call and the calls it made, in order.
SuggestPriceResult(creator, predicted) ==
    IF ~ValidCreator(creator) THEN Rejected("suggest-price", creator)
    ELSE LET df    == PriceFrame(creator)
             trace == [predicted |-> predicted, calls |-> <<"price_model.predict">>]
         IN  IF predicted.raises
             THEN Failed("suggest-price", creator, df,
                         "Error processing pricing request", "price_model.predict raised")
                    @@ trace
             ELSE [endpoint |-> "suggest-price", creator |-> creator, status |-> 200,
                   df |-> df, body |-> PriceResponse(predicted.value)] @@ trace

suggest_price(creator, predicted) ==
    /\ Serving
    /\ http = Idle
    /\ http' = SuggestPriceResult(creator, predicted)
    /\ UNCHANGED <<creator_data, feature_names, hooks>>

---------------------------------------------------------------------------
(* POST /score                                                             *)

\* Mutant of ColumnImpact: an expansion column that passes the filter appends
\* its entry whether or not it is the record's category.
ColumnImpactEveryCategory(df, shap_values, idx) ==
    LET col           == TRAINING_COLUMNS[idx]
        feature_value == df.rows[1][col]
        shap_impact   == shap_values[idx]
    IN  IF feature_value # 0 \/ Abs(shap_impact) > 10
        THEN IF StartsWith(col, "project_category_")
             THEN <<[feature |-> "project_category",
                     value   |-> Replace(col, "project_category_", ""),
                     impact  |-> Round2(shap_impact)]>>
             ELSE <<[feature |-> col,
                     value   |-> Round2(feature_value),
                     impact  |-> Round2(shap_impact)]>>
        ELSE <<>>

\* Mutant of ColumnImpact: an impact of exactly 0.01 counts as significant.
ColumnImpactInclusive(df, shap_values, idx) ==
    LET col           == TRAINING_COLUMNS[idx]
        feature_value == df.rows[1][col]
        shap_impact   == shap_values[idx]
    IN  IF feature_value # 0 \/ Abs(shap_impact) >= 10
        THEN IF StartsWith(col, "project_category_")
             THEN IF feature_value = 1000
                  THEN <<[feature |-> "project_category",
                          value   |-> Replace(col, "project_category_", ""),
                          impact  |-> Round2(shap_impact)]>>
                  ELSE <<>>
             ELSE <<[feature |-> col,
                     value   |-> Round2(feature_value),
                     impact  |-> Round2(shap_impact)]>>
        ELSE <<>>

\* Step 6f, one turn of the loop over TRAINING_COLUMNS: the entries (none or
\* one) that column idx appends to feature_impacts.
ColumnImpact(df, shap_values, idx) ==
    LET col           == TRAINING_COLUMNS[idx]
        feature_value == df.rows[1][col]
        shap_impact   == shap_values[idx]
    IN  IF feature_value # 0 \/ Abs(shap_impact) > 10
        THEN IF StartsWith(col, "project_category_")
             THEN IF feature_value = 1000
                  THEN <<[feature |-> "project_category",
                          value   |-> Replace(col, "project_category_", ""),
                          impact  |-> Round2(shap_impact)]>>
                  ELSE <<>>
             ELSE <<[feature |-> col,
                     value   |-> Round2(feature_value),
                     impact  |-> Round2(shap_impact)]>>
        ELSE <<>>

RECURSIVE FeatureImpactsFrom(_, _, _)
FeatureImpactsFrom(df, shap_values, idx) ==
    IF idx > Len(TRAINING_COLUMNS) THEN <<>>
    ELSE ColumnImpact(df, shap_values, idx) \o FeatureImpactsFrom(df, shap_values, idx + 1)

\* Step 6f: feature_impacts as the loop leaves it.
FeatureImpacts(df, shap_values) == FeatureImpactsFrom(df, shap_values, 1)

\* The sort key: abs(x["impact"]).
\* Mutant of ImpactKey: the sort key is the signed impact.
ImpactKeySigned(x) == x.impact

ImpactKey(x) == Abs(x.impact)

\* Mutant of InsertByImpact: x goes before the entries of its own key (an
\* ascending sort that is then reversed).
InsertByImpactBeforeEquals(sorted, x) ==
    LET n == Cardinality({i \in 1..Len(sorted) : ImpactKey(sorted[i]) > ImpactKey(x)})
    IN  SubSeq(sorted, 1, n) \o <<x>> \o SubSeq(sorted, n + 1, Len(sorted))

\* x put into a list already in descending key order, after every entry whose
\* key is not smaller (equal keys keep their order of arrival).
InsertByImpact(sorted, x) ==
    LET n == Cardinality({i \in 1..Len(sorted) : ImpactKey(sorted[i]) >= ImpactKey(x)})
    IN  SubSeq(sorted, 1, n) \o <<x>> \o SubSeq(sorted, n + 1, Len(sorted))

RECURSIVE SortByImpactFrom(_, _, _)
SortByImpactFrom(list, i, sorted) ==
    IF i > Len(list) THEN sorted
    ELSE SortByImpactFrom(list, i + 1, InsertByImpact(sorted, list[i]))

\* feature_impacts.sort(key=lambda x: abs(x["impact"]), reverse=True): list.sort
\* is stable, with reverse=True too.
SortByImpact(list) == SortByImpactFrom(list, 1, <<>>)

\* Mutant of TopReasons: the sorted list is returned whole.
TopReasonsUncut(sorted) == sorted

\* feature_impacts[:5]

TopReasons(sorted) == SubSeq(sorted, 1, Min(5, Len(sorted)))

\* Step 6g: the response body.
ScoreResponse(df, prediction, shap_values) ==
    [projectSuccessScore |-> Round2(prediction),
     reasons |-> TopReasons(SortByImpact(FeatureImpacts(df, shap_values)))]

\* The calls of the model and the explainer that /score makes, in order:
\* explainer.shap_values is not reached once model.predict has raised.
ScoreCalls(predicted) ==
    IF predicted.raises THEN <<"model.predict">>
    ELSE <<"model.predict", "explainer.shap_values">>

\* Mutant of ScoreResult: a failing explainer is answered with the score and
\* an empty list of reasons instead of an error.
ScoreResultWithoutReasons(creator, predicted, explained) ==
    IF ~ValidCreator(creator) THEN Rejected("score", creator)
    ELSE LET df    == ScoreFrame(creator)
             trace == [predicted |-> predicted, explained |-> explained,
                       calls |-> ScoreCalls(predicted)]
         IN  IF predicted.raises
             THEN Failed("score", creator, df, "Error processing request",
                         "model.predict raised") @@ trace
             ELSE [endpoint |-> "score", creator |-> creator, status |-> 200,
                   df |-> df,
                   feature_impacts |-> IF explained.raises THEN <<>>
                                       ELSE FeatureImpacts(df, explained.value),
                   body |-> IF explained.raises
                            THEN [projectSuccessScore |-> Round2(predicted.value),
                                  reasons |-> <<>>]
                            ELSE ScoreResponse(df, predicted.value, explained.value)]
                    @@ trace

\* The whole handler, for a body `creator`, the outcome `predicted` of
\* model.predict and the outcome `explained` of explainer.shap_values.
\* Besides the response, the record keeps what the handler went through: the
\* outcomes of the two calls, the calls made, and feature_impacts as the loop
\* left it (before the sort).
ScoreResult(creator, predicted, explained) ==
    IF ~ValidCreator(creator) THEN Rejected("score", creator)
    ELSE LET df    == ScoreFrame(creator)
             trace == [predicted |-> predicted, explained |-> explained,
                       calls |-> ScoreCalls(predicted)]
         IN  IF predicted.raises \/ explained.raises
             THEN Failed("score", creator, df, "Error processing request",
                         IF predicted.raises THEN "model.predict raised"
                         ELSE "explainer.shap_values raised") @@ trace
             ELSE [endpoint |-> "score", creator |-> creator, status |-> 200,
                   df |-> df,
                   feature_impacts |-> FeatureImpacts(df, explained.value),
                   body |-> ScoreResponse(df, predicted.value, explained.value)]
                    @@ trace

score_creator(creator, predicted, explained) ==
    /\ Serving
    /\ http = Idle
    \* explainer.shap_values is not called once model.predict has raised
    /\ predicted.raises => explained = [raises |-> TRUE, value |-> <<>>]
    /\ http' = ScoreResult(creator, predicted, explained)
    /\ UNCHANGED <<creator_data, feature_names, hooks>>

\* The response leaves; nothing of the request is kept.
Respond ==
    /\ http # Idle
    /\ http' = Idle
    /\ UNCHANGED <<creator_data, feature_names, hooks>>

---------------------------------------------------------------------------
(* POST /webhook/github/{project_id}                                       *)

\* The number of webhook calls that can be in flight at once.
MaxCalls == 2

Slots == 1..MaxCalls

meaningful_keywords ==
    <<"feat", "feature", "fix", "bugfix", "chore", "docs", "documentation",
      "refactor", "perf", "performance", "test", "style">>

\* payload.head_commit, by what the handler can tell apart: None ("absent"),
\* an empty dict ("empty"), a dict without the key 'message' ("no_message"),
\* a dict whose 'message' is null ("null_message"), a dict whose 'message' is
\* the string `message` ("message").
HeadCommit(kind, message) == [kind |-> kind, message |-> message]

\* `if payload.head_commit:` (None and {} are falsy).
HasHeadCommit(head_commit) == head_commit.kind \notin {"absent", "empty"}

\* commit_message_raw = payload.head_commit.get('message', '')
CommitMessageRaw(head_commit) ==
    IF head_commit.kind = "message" THEN head_commit.message ELSE ""

\* Mutant of LowerRaises: the message is read with head_commit['message'],
\* which raises KeyError on a head commit without the key.
MessageLookupRaises(head_commit) == head_commit.kind \in {"no_message", "null_message"}

\* commit_message_raw.lower() raises AttributeError on None.
LowerRaises(head_commit) == head_commit.kind = "null_message"

\* Mutant of CommitMessage: the keywords are looked for in the message as
\* written, without .lower().
CommitMessageAsWritten(head_commit) ==
    IF HasHeadCommit(head_commit) THEN CommitMessageRaw(head_commit) ELSE ""

\* commit_message: "" without a head commit, else commit_message_raw.lower().
CommitMessage(head_commit) ==
    IF HasHeadCommit(head_commit) THEN Lower(CommitMessageRaw(head_commit)) ELSE ""

RECURSIVE MatchedKeywordFrom(_, _)
MatchedKeywordFrom(commit_message, i) ==
    IF i > Len(meaningful_keywords) THEN ""
    ELSE IF Contains(commit_message, meaningful_keywords[i]) THEN meaningful_keywords[i]
    ELSE MatchedKeywordFrom(commit_message, i + 1)

\* The loop over meaningful_keywords: the first keyword found in the message
\* ("" when the loop ends without a break).
MatchedKeyword(commit_message) == MatchedKeywordFrom(commit_message, 1)

\* score_increase as the loop leaves it: round(np.random.uniform(0.5, 2.5), 2)
\* at the first keyword found, 0.0 when none is; `draw` is what uniform returns.
ScoreIncrease(commit_message, draw) ==
    IF MatchedKeyword(commit_message) # "" THEN Round2(draw) ELSE 0

\* Mutant of BackendPayload: the ledger is sent the case-folded message the
\* classification worked on.
BackendPayloadFolded(project_id, score_increase, commit_message_raw) ==
    [projectId |-> project_id, scoreIncrease |-> score_increase,
     commitMessage |-> Lower(commit_message_raw)]

\* The json of the outbound POST.
BackendPayload(project_id, score_increase, commit_message_raw) ==
    [projectId |-> project_id, scoreIncrease |-> score_increase,
     commitMessage |-> commit_message_raw]

\* The dict the handler returns.
WebhookResponse(project_id, score_increase, commit_message_raw) ==
    [projectId |-> project_id, scoreIncrease |-> score_increase,
     commitMessage |-> commit_message_raw, message |-> "Webhook processed successfully"]

FreeSlot ==
    [pc |-> "free", project_id |-> "", head_commit |-> HeadCommit("absent", ""),
     commit_message_raw |-> "", matched_keyword |-> "", score_increase |-> 0,
     posts |-> <<>>, backend |-> "", status |-> 0]

\* The handler from its entry to its first suspension or its return: the
\* message is read and classified; a meaningful commit leaves the call
\* awaiting client.post, any other is answered at once.  An exception is
\* answered by the outer except branch with HTTPException(500).
Received(project_id, head_commit, draw) ==
    LET entered == [FreeSlot EXCEPT !.project_id = project_id, !.head_commit = head_commit]
    IN  IF HasHeadCommit(head_commit) /\ LowerRaises(head_commit)
        THEN [entered EXCEPT !.pc = "responded", !.status = 500]
        ELSE LET raw      == IF HasHeadCommit(head_commit) THEN CommitMessageRaw(head_commit) ELSE ""
                 message  == CommitMessage(head_commit)
                 increase == ScoreIncrease(message, draw)
                 call     == [entered EXCEPT !.commit_message_raw = raw,
                                             !.matched_keyword = MatchedKeyword(message),
                                             !.score_increase = increase]
             IN  IF increase > 0
                 THEN [call EXCEPT !.pc = "posting",
                                   !.posts = <<BackendPayload(project_id, increase, raw)>>]
                 ELSE [call EXCEPT !.pc = "responded", !.status = 200]

\* What can become of the POST: a 200 with a JSON body ("ok"), a 200 whose
\* body response.json() cannot parse ("bad_json"), another status
\* ("status_error"), httpx.TimeoutException after 10 s ("timeout"),
\* httpx.ConnectError ("connect_error").
BackendOutcomes == {"ok", "bad_json", "status_error", "timeout", "connect_error"}

\* Mutant of AfterPost: the inner handler catches httpx.HTTPError only, so the
\* ValueError of response.json() reaches the outer except branch.
AfterPostJsonEscapes(call, outcome) ==
    IF outcome = "bad_json"
    THEN [call EXCEPT !.pc = "responded", !.backend = outcome, !.status = 500]
    ELSE [call EXCEPT !.pc = "responded", !.backend = outcome, !.status = 200]

\* Mutant of AfterPost: a failed delivery is sent once more.
AfterPostRetry(call, outcome) ==
    IF outcome # "ok" /\ Len(call.posts) < 2
    THEN [call EXCEPT !.posts = Append(@, BackendPayload(call.project_id, call.score_increase,
                                                          call.commit_message_raw))]
    ELSE [call EXCEPT !.pc = "responded", !.backend = outcome, !.status = 200]

\* The handler from the end of `await client.post` to its return: the inner
\* `except Exception` takes every failure of the delivery, the status branch
\* only prints, and the handler goes on to return its response.
AfterPost(call, outcome) ==
    [call EXCEPT !.pc = "responded", !.backend = outcome, !.status = 200]

\* The body of the answer of a call that has responded.
ResponseBody(call) ==
    IF call.status = 200
    THEN WebhookResponse(call.project_id, call.score_increase, call.commit_message_raw)
    ELSE [detail |-> "Error processing webhook"]

handle_github_webhook(c, project_id, head_commit, draw) ==
    /\ Serving
    /\ hooks[c].pc = "free"
    /\ hooks' = [hooks EXCEPT ![c] = Received(project_id, head_commit, draw)]
    /\ UNCHANGED <<creator_data, feature_names, http>>

\* Mutant of BackendReplies: the client is built without a timeout, so a POST
\* the ledger never answers never ends.
BackendRepliesUnbounded(c, outcome) ==
    /\ outcome # "timeout"
    /\ hooks[c].pc = "posting"
    /\ hooks' = [hooks EXCEPT ![c] = AfterPost(hooks[c], outcome)]
    /\ UNCHANGED <<creator_data, feature_names, http>>

\* Mutant of BackendReplies: the outcome of one POST is seen by every call
\* that is awaiting one (the response kept where all calls read it).
BackendRepliesShared(c, outcome) ==
    /\ hooks[c].pc = "posting"
    /\ hooks' = [d \in Slots |-> IF hooks[d].pc = "posting"
                                 THEN AfterPost(hooks[d], outcome) ELSE hooks[d]]
    /\ UNCHANGED <<creator_data, feature_names, http>>

\* The awaited POST ends, one way or another, and the handler runs on.
BackendReplies(c, outcome) ==
    /\ hooks[c].pc = "posting"
    /\ hooks' = [hooks EXCEPT ![c] = AfterPost(hooks[c], outcome)]
    /\ UNCHANGED <<creator_data, feature_names, http>>

\* Mutant of Return: the event just answered is remembered (as a table of
\* deliveries seen would).
ReturnRemembers(c) ==
    /\ hooks[c].pc = "responded"
    /\ hooks' = [hooks EXCEPT ![c] = [FreeSlot EXCEPT !.project_id = hooks[c].project_id,
                                                      !.head_commit = hooks[c].head_commit]]
    /\ UNCHANGED <<creator_data, feature_names, http>>

\* The answer leaves; nothing of the call is kept.
Return(c) ==
    /\ hooks[c].pc = "responded"
    /\ hooks' = [hooks EXCEPT ![c] = FreeSlot]
    /\ UNCHANGED <<creator_data, feature_names, http>>

---------------------------------------------------------------------------
(* The requests and model outcomes the /score and /suggest-price handlers  *)
(* are checked on.                                                         *)

\* The four known categories, one that was never trained on, and a known one
\* in another letter case.
CategoryInputs == {categories[i] : i \in 1..Len(categories)} \cup {"Data Science", "web development"}

\* Request bodies: per numeric field a value inside its range and, for some,
\* one outside or the value 0.
Creators ==
    [projects_completed       : {4000, 25000},
     tenure_months            : {36000, 61000},
     portfolio_strength       : {850},
     on_time_delivery_percent : {950},
     avg_client_rating        : {4700, 5100},
     rating_trajectory        : {0, 150},
     dispute_rate             : {0, 30},
     project_category         : CategoryInputs]

Raises == [raises |-> TRUE, value |-> 0]

Returns(v) == [raises |-> FALSE, value |-> v]

\* Raw outputs of price_model.predict, in tenths of a rupee: below, at, inside,
\* and above the band, and around the points where a bound crosses it.
PricePredictions ==
    {300000, 446424, 446426, 499994, 499995, 500000, 568181, 568182,
     2500000, 4464285, 4464286, 4999996, 5000000, 5000004, 5000006,
     5681814, 5681816, 6000000}

PriceOutcomes == {Raises} \cup {Returns(v) : v \in PricePredictions}

ScorePredictions == {0, 72345, 100000}

ScoreOutcomes == {Raises} \cup {Returns(v) : v \in ScorePredictions}

\* Outputs of explainer.shap_values, one impact per schema column.
ShapVectors ==
    {<<0, 0, 0, 0, 0, 0, 0, 0, 0, 0, 0>>,
     <<1504, -820, 3125, 5250, -4375, 12, -9, 0, 0, 0, 250>>,
     <<2000, 2000, -2000, 2004, 1996, 8, 11, 500, -500, 500, -500>>,
     <<-125, 375, 10, -10, 11, -11, 0, 15, 4, -4, 2000>>}

NoExplanation == [raises |-> TRUE, value |-> <<>>]

ShapOutcomes == {NoExplanation} \cup {[raises |-> FALSE, value |-> v] : v \in ShapVectors}

---------------------------------------------------------------------------
(* The offline pipeline followed by the service answering /score and       *)
(* /suggest-price requests.                                                *)

Init ==
    /\ creator_data = NoFrame
    /\ feature_names = <<>>
    /\ http = Idle
    /\ hooks = [c \in Slots |-> FreeSlot]

Next ==
    \/ \E cats \in (SUBSET {categories[i] : i \in 1..Len(categories)}) \ {{}} :
          GenerateData(cats)
    \/ Train
    \/ \E creator \in Creators, predicted \in PriceOutcomes :
          suggest_price(creator, predicted)
    \/ \E creator \in Creators, predicted \in ScoreOutcomes, explained \in ShapOutcomes :
          score_creator(creator, predicted, explained)
    \/ Respond

Spec == Init /\ [][Next]_vars

---------------------------------------------------------------------------
(* The running service answering webhook calls.                            *)

ProjectIds == {"673ab1234567890abcdef123", "p2"}

\* Commit messages: the three of test_webhook.py, a keyword in capitals, a
\* keyword inside another word, two keywords at once, and the empty message.
CommitMessages ==
    {"feat: add new dashboard feature", "fix: resolve login issue", "update readme",
     "FIX typo", "Latest", "Refactor Docs", ""}

HeadCommits ==
    {HeadCommit(k, "") : k \in {"absent", "empty", "no_message", "null_message"}}
        \cup {HeadCommit("message", m) : m \in CommitMessages}

\* What np.random.uniform(0.5, 2.5) can return, in thousandths of a point.
Draws == {500, 504, 1375, 2496, 2499}

\* Both models are on disk, fitted on the dataset of all four categories, and
\* the service has started.
InitServing ==
    /\ creator_data = Dataset({categories[i] : i \in 1..Len(categories)})
    /\ feature_names = TrainX(creator_data).columns
    /\ http = Idle
    /\ hooks = [c \in Slots |-> FreeSlot]

\* One webhook call at a time.
NextHook ==
    \/ \E project_id \in ProjectIds, head_commit \in HeadCommits, draw \in Draws :
          handle_github_webhook(1, project_id, head_commit, draw)
    \/ \E outcome \in BackendOutcomes : BackendReplies(1, outcome)
    \/ Return(1)

SpecHook == InitServing /\ [][NextHook]_vars

\* The webhook with the one progress guarantee the code gives: the client is
\* built with timeout=10.0, so a POST in flight that nothing else ends is ended
\* by the timeout.  The ledger itself is promised nothing: it may answer, fail
\* or stay silent.
SpecHookFair == SpecHook /\ WF_vars(BackendReplies(1, "timeout"))

---------------------------------------------------------------------------
(* Webhook calls in flight together: the handler is a coroutine, and while *)
(* one call awaits its POST the event loop runs the others.  Up to         *)
(* MaxCalls calls, for the same or different projects and commits.         *)

ConcurrentHeadCommits ==
    {HeadCommit("absent", ""), HeadCommit("message", "update readme"),
     HeadCommit("message", "fix: resolve login issue")}

ConcurrentDraws == {504, 2496}

NextConcurrent ==
    \/ \E c \in Slots, project_id \in ProjectIds, head_commit \in ConcurrentHeadCommits,
          draw \in ConcurrentDraws :
          handle_github_webhook(c, project_id, head_commit, draw)
    \/ \E c \in Slots, outcome \in BackendOutcomes : BackendReplies(c, outcome)
    \/ \E c \in Slots : Return(c)

SpecConcurrent == InitServing /\ [][NextConcurrent]_vars

---------------------------------------------------------------------------
(* The trained service answering requests of all three kinds, interleaved: *)
(* /score and /suggest-price requests while webhook calls are in flight.   *)

ServiceCreators ==
    [projects_completed       : {25000},
     tenure_months            : {36000},
     portfolio_strength       : {850},
     on_time_delivery_percent : {950},
     avg_client_rating        : {4700, 5100},
     rating_trajectory        : {0},
     dispute_rate             : {30},
     project_category         : {"Web Development", "Data Science"}]

ServiceHeadCommits ==
    {HeadCommit("absent", ""), HeadCommit("message", "fix: resolve login issue")}

NextService ==
    \/ \E creator \in ServiceCreators, predicted \in {Raises, Returns(4464286)} :
          suggest_price(creator, predicted)
    \/ \E creator \in ServiceCreators, predicted \in {Raises, Returns(72345)},
          explained \in {NoExplanation,
                         [raises |-> FALSE,
                          value |-> <<1504, -820, 3125, 5250, -4375, 12, -9, 0, 0, 0, 250>>]} :
          score_creator(creator, predicted, explained)
    \/ Respond
    \/ \E c \in Slots, head_commit \in ServiceHeadCommits :
          handle_github_webhook(c, "p2", head_commit, 1375)
    \/ \E c \in Slots, outcome \in {"ok", "timeout"} : BackendReplies(c, outcome)
    \/ \E c \in Slots : Return(c)

SpecService == InitServing /\ [][NextService]_vars

---------------------------------------------------------------------------
(* The trained service answering /score, on explainer outputs chosen for   *)
(* the explanation: impacts on both sides of the 0.01 threshold, impacts   *)
(* that are equal once rounded to two decimals, and impacts on expansion   *)
(* columns that are and are not the record's category.                     *)

ExplainCreators ==
    [projects_completed       : {25000},
     tenure_months            : {36000},
     portfolio_strength       : {850},
     on_time_delivery_percent : {950},
     avg_client_rating        : {4700},
     rating_trajectory        : {0, 150},
     dispute_rate             : {0, 30},
     project_category         : {"Graphic Design", "Web Development", "Data Science"}]

ExplainShapVectors ==
    {<<a, -1996, b, c, -2000, d, e, f, 0, 15, g>> :
        a \in {2004, 10, -11}, b \in {2000, -305}, c \in {1996, 5250},
        d \in {0, -10, 11, 2000}, e \in {8, -4375}, f \in {0, -3000},
        g \in {4, 500}}

ExplainShapOutcomes ==
    {NoExplanation} \cup {[raises |-> FALSE, value |-> v] : v \in ExplainShapVectors}

NextExplain ==
    \/ \E creator \in ExplainCreators, explained \in ExplainShapOutcomes :
          score_creator(creator, Returns(72345), explained)
    \/ Respond

SpecExplain == InitServing /\ [][NextExplain]_vars

---------------------------------------------------------------------------
(* Properties of /score and /suggest-price, checked under Spec.             *)

\* A request has been taken up (answered or rejected).
Handled == http.endpoint # "none"

\* The handler body ran: the request passed validation and the frame was
\* reconciled (whatever the model did afterwards).
Reconciled == Handled /\ http.status \in {200, 500}

\* The categorical-expansion columns of the schema, and the category values
\* they stand for.
ExpansionColumns ==
    {TRAINING_COLUMNS[i] : i \in {j \in 1..Len(TRAINING_COLUMNS) :
                                    StartsWith(TRAINING_COLUMNS[j], "project_category_")}}

KnownCategories == {Replace(c, "project_category_", "") : c \in ExpansionColumns}

NumericInRange(creator) ==
    /\ 5000 <= creator.projects_completed /\ creator.projects_completed <= 50000
    /\ 6000 <= creator.tenure_months /\ creator.tenure_months <= 60000
    /\ 500 <= creator.portfolio_strength /\ creator.portfolio_strength <= 1000
    /\ 700 <= creator.on_time_delivery_percent /\ creator.on_time_delivery_percent <= 1000
    /\ 3500 <= creator.avg_client_rating /\ creator.avg_client_rating <= 5000
    /\ -200 <= creator.rating_trajectory /\ creator.rating_trajectory <= 300
    /\ 0 <= creator.dispute_rate /\ creator.dispute_rate <= 150

\* C1: for every record that reaches a handler, known category or not, the
\* reconciled frame of /score and of /suggest-price has exactly the 11 columns
\* of TRAINING_COLUMNS, in that order, and the row handed to the model has one
\* value per column.
C1_VectorMatchesSchema ==
    Reconciled =>
        /\ Len(TRAINING_COLUMNS) = 11
        /\ Len(http.df.columns) = Len(TRAINING_COLUMNS)
        /\ \A i \in 1..Len(TRAINING_COLUMNS) : http.df.columns[i] = TRAINING_COLUMNS[i]
        /\ Len(http.df.rows) = 1
        /\ Len(RowValues(http.df, 1)) = 11

\* C1 witness: a record of a category the schema does not know was reconciled
\* and priced.
C1_Witness ==
    /\ Reconciled
    /\ http.endpoint = "suggest-price"
    /\ http.status = 200
    /\ http.creator.project_category = "Data Science"

\* C2: one-hot invariant.  A known category sets exactly its own expansion
\* column to 1 and the other three to 0; an unknown one leaves all four at 0,
\* and the request is not turned away for it.
C2_OneHot ==
    Handled =>
        LET cat  == http.creator.project_category
            ones == {c \in ExpansionColumns : http.df.rows[1][c] = 1000}
        IN  /\ Cardinality(ExpansionColumns) = 4
            /\ Reconciled =>
                 /\ \A c \in ExpansionColumns : http.df.rows[1][c] \in {0, 1000}
                 /\ cat \in KnownCategories => ones = {"project_category_" \o cat}
                 /\ cat \notin KnownCategories => ones = {}
            /\ (cat \notin KnownCategories /\ NumericInRange(http.creator)) => Reconciled

\* C2 witness: a /score request of a known category was answered with its
\* column set.
C2_Witness ==
    /\ Reconciled
    /\ http.endpoint = "score"
    /\ http.status = 200
    /\ http.creator.project_category = "UI/UX Design"
    /\ http.df.rows[1]["project_category_UI/UX Design"] = 1000

\* The categories that occur in creator_data.csv.
DatasetCategories ==
    {creator_data.rows[r].project_category : r \in 1..Len(creator_data.rows)}

\* C3: when the dataset holds all four generated categories, the columns both
\* models were fitted on are TRAINING_COLUMNS, name for name and in order: the
\* seven numeric dataset columns, then the expansion columns sorted by
\* category value.
C3_SchemaMatchesTraining ==
    (feature_names # <<>> /\ DatasetCategories = {categories[i] : i \in 1..Len(categories)}) =>
        /\ feature_names = TRAINING_COLUMNS
        /\ SubSeq(feature_names, 1, 7) = SubSeq(DATASET_COLUMNS, 1, 7)
        /\ \A i \in 8..10 :
              StrLess(Replace(TRAINING_COLUMNS[i], "project_category_", ""),
                      Replace(TRAINING_COLUMNS[i + 1], "project_category_", ""))

\* C3 witness: train.py has run on a dataset with all four categories.
C3_Witness ==
    /\ feature_names # <<>>
    /\ Cardinality(DatasetCategories) = 4
    /\ Len(feature_names) = 11

\* C4 as stated: a record of an unknown category is rejected by validation
\* and never reconciled.
C4_UnknownCategoryRejected ==
    (Handled /\ http.creator.project_category \notin KnownCategories) =>
        (http.status = 422 /\ http.df = NoFrame)

\* C4 as amended: validation rejects a record exactly when a numeric field is
\* outside its range; the category is any string, and a record of an unknown
\* category with numeric fields in range is reconciled like any other.
C4_RejectedIffNumericOutOfRange ==
    Handled =>
        /\ (http.status = 422) <=> ~NumericInRange(http.creator)
        /\ http.status = 422 => http.df = NoFrame
        /\ http.status # 422 => http.df.columns = TRAINING_COLUMNS

\* C4 witness: a /score request of an unknown category got a prediction.
C4_Witness ==
    /\ Handled
    /\ http.endpoint = "score"
    /\ http.creator.project_category \notin KnownCategories
    /\ http.status = 200
    /\ http.body.projectSuccessScore = 7234

Priced == Handled /\ http.endpoint = "suggest-price" /\ http.status = 200

\* C5: the suggested price returned is within [50000, 500000].
C5_SuggestedPriceInBand ==
    Priced => (50000 <= http.body.suggested_price /\ http.body.suggested_price <= 500000)

\* C6: the returned range brackets the suggested price.
C6_RangeBracketsPrice ==
    Priced =>
        /\ http.body.price_range[1] <= http.body.suggested_price
        /\ http.body.suggested_price <= http.body.price_range[2]

\* C7: both ends of the returned range are within [50000, 500000].
C7_RangeInBand ==
    Priced =>
        /\ 50000 <= http.body.price_range[1] /\ http.body.price_range[1] <= 500000
        /\ 50000 <= http.body.price_range[2] /\ http.body.price_range[2] <= 500000

---------------------------------------------------------------------------
(* Properties of the webhook handler, checked under SpecHook.              *)

\* The call's classification is complete: it awaits the POST or has answered 200.
Classified(call) == call.pc = "posting" \/ (call.pc = "responded" /\ call.status = 200)

\* The case-folded text of the message holds a keyword of the set.
HoldsKeyword(text) ==
    LET folded == Lower(text)
    IN  \E k \in {meaningful_keywords[i] : i \in 1..Len(meaningful_keywords)} :
            \E i \in 1..Len(folded) :
                i + Len(k) - 1 <= Len(folded) /\ SubSeq(folded, i, i + Len(k) - 1) = k

\* C8: a message whose case-folded text holds a keyword is meaningful (a
\* delivery is started) with scoreIncrease in [0.5, 2.5]; one that holds none
\* is not, with scoreIncrease 0; which of the two is decided by the message
\* alone, whatever was drawn.
C8_CommitClassification ==
    \A c \in Slots :
        LET call == hooks[c]
        IN  Classified(call) =>
              /\ call.head_commit.kind = "message" =>
                    call.commit_message_raw = call.head_commit.message
              /\ HoldsKeyword(call.commit_message_raw) =>
                    /\ 50 <= call.score_increase /\ call.score_increase <= 250
                    /\ call.posts # <<>>
              /\ ~HoldsKeyword(call.commit_message_raw) =>
                    /\ call.score_increase = 0
                    /\ call.posts = <<>>

\* C8 witness: a keyword in capitals was found and the draw rounded to 2.5.
C8_Witness ==
    \E c \in Slots :
        /\ hooks[c].pc = "responded"
        /\ hooks[c].commit_message_raw = "FIX typo"
        /\ hooks[c].matched_keyword = "fix"
        /\ hooks[c].score_increase = 250

\* C9: whatever became of the POST, the call is answered 200 with the
\* scoreIncrease computed at classification (the one that was sent).
C9_DeliveryFailureIsolated ==
    \A c \in Slots :
        LET call == hooks[c]
        IN  (call.pc = "responded" /\ call.posts # <<>>) =>
              /\ call.backend \in BackendOutcomes
              /\ call.status = 200
              /\ ResponseBody(call).scoreIncrease = call.posts[1].scoreIncrease
              /\ ResponseBody(call).scoreIncrease >= 50
              /\ ResponseBody(call).message = "Webhook processed successfully"

\* C9 witness: the POST timed out and the call was answered with its delta.
C9_Witness ==
    \E c \in Slots :
        /\ hooks[c].pc = "responded"
        /\ hooks[c].backend = "timeout"
        /\ hooks[c].status = 200
        /\ ResponseBody(hooks[c]).scoreIncrease = 138

\* C10: a call makes one POST attempt if its commit is meaningful and none if
\* it is not, and never a second one, whatever became of the first.
C10_OneDeliveryAttempt ==
    \A c \in Slots :
        LET call == hooks[c]
        IN  /\ Len(call.posts) <= 1
            /\ call.pc = "posting" => Len(call.posts) = 1
            /\ (call.pc = "responded" /\ call.status = 200) =>
                  Len(call.posts) = IF HoldsKeyword(call.commit_message_raw) THEN 1 ELSE 0
            /\ (call.pc = "responded" /\ call.status # 200) => call.posts = <<>>
            /\ call.pc = "free" => call.posts = <<>>

\* C10 witness: the one attempt failed to connect and the call has answered.
C10_Witness ==
    \E c \in Slots :
        /\ hooks[c].pc = "responded"
        /\ hooks[c].backend = "connect_error"
        /\ Len(hooks[c].posts) = 1

\* C11: a webhook call whose notification is in flight is eventually answered,
\* whatever the ledger does: the wait on the ledger ends by the timeout at the
\* latest.
C11_PostingLeadsToResponse ==
    \A c \in {1} : (hooks[c].pc = "posting") ~> (hooks[c].pc = "responded")

\* C11 witness: the ledger never answered a meaningful commit, the timeout
\* ended the wait and the call has its 200 response.
C11_Witness ==
    /\ hooks[1].pc = "responded"
    /\ hooks[1].backend = "timeout"
    /\ hooks[1].status = 200
    /\ hooks[1].commit_message_raw = "Refactor Docs"
    /\ Len(hooks[1].posts) = 1
\* A /score request that was answered with a score and its reasons.
Explained == http.endpoint = "score" /\ http.status = 200

\* C12: the reasons of a /score response are in descending order of absolute
\* impact: no entry has a smaller absolute impact than the entry after it.
C12_ReasonsDescending ==
    Explained =>
        LET reasons == http.body.reasons
        IN  \A i \in 1..(Len(reasons) - 1) :
                Abs(reasons[i].impact) >= Abs(reasons[i + 1].impact)

\* C12 witness: five reasons, a negative impact ranked above a smaller
\* positive one, and the last reason strictly below the first.
C12_Witness ==
    /\ Explained
    /\ Len(http.body.reasons) = 5
    /\ \E i \in 1..4 : /\ http.body.reasons[i].impact < 0
                       /\ http.body.reasons[i + 1].impact > 0
                       /\ Abs(http.body.reasons[i].impact) > http.body.reasons[i + 1].impact
    /\ Abs(http.body.reasons[1].impact) > Abs(http.body.reasons[5].impact)
\* C13: the reasons of a /score response are never more than 5.
C13_AtMostFiveReasons ==
    Explained => Len(http.body.reasons) <= 5

\* C13 witness: eight columns passed the filter and five reasons were
\* returned.
C13_Witness ==
    /\ Explained
    /\ Len(http.feature_impacts) = 8
    /\ Len(http.body.reasons) = 5
\* The model or, for /score, the explainer raised while the request was served.
ModelRaised ==
    /\ Reconciled
    /\ \/ http.predicted.raises
       \/ http.endpoint = "score" /\ http.explained.raises

\* The calls of a prediction model among the calls the handler made.
PredictCalls ==
    {i \in 1..Len(http.calls) : http.calls[i] \in {"model.predict", "price_model.predict"}}

\* C14: when the model or the explainer raises, the request is answered with
\* an error that carries a detail only, no score, reasons or price, and no
\* call follows the one that raised; no request calls a prediction model
\* twice.
C14_ModelFailureReported ==
    /\ ModelRaised =>
          /\ http.status = 500
          /\ DOMAIN http.body = {"detail"}
          /\ http.predicted.raises => Len(http.calls) = 1
    /\ Reconciled => Cardinality(PredictCalls) = 1

\* C14 witness: model.predict returned, explainer.shap_values raised, and the
\* request was answered 500 after one call of each.
C14_Witness ==
    /\ ModelRaised
    /\ http.endpoint = "score"
    /\ ~http.predicted.raises
    /\ http.explained.raises
    /\ http.status = 500
    /\ http.calls = <<"model.predict", "explainer.shap_values">>
\* The seven numeric fields of a Creator Record.
NumericFields == DOMAIN FIELD_RANGE

\* C15: in the reconciled vector every numeric field of the record stands,
\* unchanged, at the position of the schema column of its name, and every
\* position that is neither a numeric field's nor the record's category's
\* holds 0.
C15_NumericFieldsInPlace ==
    Reconciled =>
        LET v       == RowValues(http.df, 1)
            cat_col == "project_category_" \o http.creator.project_category
        IN  /\ Cardinality(NumericFields) = 7
            /\ \A f \in NumericFields :
                  \E i \in 1..Len(TRAINING_COLUMNS) : TRAINING_COLUMNS[i] = f
            /\ \A i \in 1..Len(TRAINING_COLUMNS) :
                  LET col == TRAINING_COLUMNS[i]
                  IN  IF col \in NumericFields THEN v[i] = http.creator[col]
                      ELSE col # cat_col => v[i] = 0

\* C15 witness: a record of seven different non-zero numeric values and an
\* unknown category was reconciled to those seven values followed by four
\* zeros.
C15_Witness ==
    /\ Reconciled
    /\ http.creator.project_category = "Data Science"
    /\ RowValues(http.df, 1) = <<25000, 36000, 850, 950, 4700, 150, 30, 0, 0, 0, 0>>
\* The entries of feature_impacts, before the sort and the cut, whose feature
\* is `name`.
EntriesOf(name) ==
    {k \in 1..Len(http.feature_impacts) : http.feature_impacts[k].feature = name}

\* C17: before sorting and truncation a numeric schema column has an entry,
\* and only one, exactly when its input value is not 0 or the absolute value
\* of its impact is above 0.01; with value 0 and an impact of at most 0.01 in
\* absolute value it has none.
C17_NumericFilter ==
    Explained =>
        \A i \in 1..Len(TRAINING_COLUMNS) :
            LET col == TRAINING_COLUMNS[i]
            IN  col \in NumericFields =>
                   Cardinality(EntriesOf(col)) =
                      IF http.df.rows[1][col] # 0 \/ Abs(http.explained.value[i]) > 10
                      THEN 1 ELSE 0

\* C17 witness: rating_trajectory is 0 with an impact of exactly -0.01 and
\* has no entry; dispute_rate is 0 with an impact of -4.375 and has one.
C17_Witness ==
    /\ Explained
    /\ http.creator.rating_trajectory = 0
    /\ http.explained.value[6] = -10
    /\ EntriesOf("rating_trajectory") = {}
    /\ http.creator.dispute_rate = 0
    /\ http.explained.value[7] = -4375
    /\ EntriesOf("dispute_rate") # {}
\* The expansion columns whose value in the reconciled vector is 1.
ActiveColumns == {c \in ExpansionColumns : http.df.rows[1][c] = 1000}

\* C18: feature_impacts, and so reasons, holds at most one entry of feature
\* "project_category": one for each expansion column of value 1, carrying that
\* column's category name, and none for an expansion column of value 0
\* whatever its impact; every other entry is named after a numeric schema
\* column.
C18_CategoryCollapsed ==
    Explained =>
        LET entries == http.feature_impacts
            reasons == http.body.reasons
        IN  /\ Cardinality(EntriesOf("project_category")) <= 1
            /\ Cardinality({k \in 1..Len(reasons) :
                               reasons[k].feature = "project_category"}) <= 1
            /\ {"project_category_" \o entries[k].value : k \in EntriesOf("project_category")}
                  = ActiveColumns
            /\ \A k \in 1..Len(reasons) :
                  IF reasons[k].feature = "project_category"
                  THEN "project_category_" \o reasons[k].value \in ActiveColumns
                  ELSE reasons[k].feature \in NumericFields
            /\ \A k \in 1..Len(entries) :
                  entries[k].feature \in NumericFields \cup {"project_category"}

\* C18 witness: the record is of Web Development, the Graphic Design column
\* is 0 with an impact of -3.0, and the one category entry is Web
\* Development's, which made it into the reasons.
C18_Witness ==
    /\ Explained
    /\ http.creator.project_category = "Web Development"
    /\ http.df.rows[1]["project_category_Graphic Design"] = 0
    /\ http.explained.value[8] = -3000
    /\ \A k \in EntriesOf("project_category") :
          http.feature_impacts[k].value = "Web Development"
    /\ \E k \in 1..Len(http.body.reasons) :
          /\ http.body.reasons[k].feature = "project_category"
          /\ http.body.reasons[k].value = "Web Development"
\* The position in TRAINING_COLUMNS of the column an entry was made from.
SchemaIndex(entry) ==
    LET col == IF entry.feature = "project_category"
               THEN "project_category_" \o entry.value
               ELSE entry.feature
    IN  CHOOSE i \in 1..Len(TRAINING_COLUMNS) : TRAINING_COLUMNS[i] = col

\* C19: of two entries of equal absolute impact the one whose column comes
\* earlier in TRAINING_COLUMNS comes earlier in reasons, and where the cut
\* falls between them it is the earlier column that stays.
C19_TiesInSchemaOrder ==
    Explained =>
        LET reasons == http.body.reasons
            entries == http.feature_impacts
            shown   == {SchemaIndex(reasons[k]) : k \in 1..Len(reasons)}
        IN  /\ \A i, j \in 1..Len(reasons) :
                  (i < j /\ Abs(reasons[i].impact) = Abs(reasons[j].impact)) =>
                     SchemaIndex(reasons[i]) < SchemaIndex(reasons[j])
            /\ \A k \in 1..Len(entries), i \in 1..Len(reasons) :
                  (/\ SchemaIndex(entries[k]) \notin shown
                   /\ Abs(entries[k].impact) = Abs(reasons[i].impact)) =>
                     SchemaIndex(reasons[i]) < SchemaIndex(entries[k])

\* C19 witness: the first four reasons are tied at 2.0 in absolute value,
\* from raw impacts 2.004, -1.996, 2.0 and 1.996, and stand in schema order;
\* a fifth column tied with them was cut.
C19_Witness ==
    /\ Explained
    /\ Len(http.body.reasons) = 5
    /\ \A i \in 1..4 : Abs(http.body.reasons[i].impact) = 200
    /\ http.body.reasons[1].feature = "projects_completed"
    /\ http.body.reasons[2].feature = "tenure_months"
    /\ http.body.reasons[3].feature = "portfolio_strength"
    /\ http.body.reasons[4].feature = "on_time_delivery_percent"
    /\ \E k \in 1..Len(http.feature_impacts) :
          /\ Abs(http.feature_impacts[k].impact) = 200
          /\ \A i \in 1..5 : http.body.reasons[i].feature # http.feature_impacts[k].feature
\* C20: the json of the outbound POST and the response of the same call
\* agree: projectId is the project id of the path in both, scoreIncrease is
\* the delta the POST was sent with, whatever the ledger answered, and
\* commitMessage is the head commit's message as it was written in both.
C20_PayloadMatchesResponse ==
    \A c \in Slots :
        LET call == hooks[c]
        IN  /\ call.posts # <<>> =>
                  /\ call.head_commit.kind = "message"
                  /\ call.posts[1].projectId = call.project_id
                  /\ call.posts[1].commitMessage = call.head_commit.message
                  /\ call.posts[1].scoreIncrease = call.score_increase
            /\ (call.pc = "responded" /\ call.status = 200 /\ call.posts # <<>>) =>
                  /\ ResponseBody(call).projectId = call.posts[1].projectId
                  /\ ResponseBody(call).scoreIncrease = call.posts[1].scoreIncrease
                  /\ ResponseBody(call).commitMessage = call.posts[1].commitMessage

\* C20 witness: "FIX typo" pushed to project p2 was sent to the ledger and
\* answered to the caller with its capitals and a delta of 2.5, after the
\* ledger answered with a status other than 200.
C20_Witness ==
    /\ hooks[1].pc = "responded"
    /\ hooks[1].backend = "status_error"
    /\ hooks[1].posts = <<[projectId |-> "p2", scoreIncrease |-> 250,
                           commitMessage |-> "FIX typo"]>>
    /\ ResponseBody(hooks[1]).projectId = "p2"
    /\ ResponseBody(hooks[1]).scoreIncrease = 250
    /\ ResponseBody(hooks[1]).commitMessage = "FIX typo"
\* The head commits without a message: head_commit missing or null, an empty
\* head_commit, and a head_commit that has no "message" key.
NoMessageKinds == {"absent", "empty", "no_message"}

CallIsItsOwn(c) ==
    LET call == hooks[c]
    IN  /\ Len(call.posts) <= 1
        /\ call.posts # <<>> =>
              call.posts[1] = BackendPayload(call.project_id, call.score_increase,
                                             call.commit_message_raw)
        /\ (call.pc \in {"posting", "responded"} /\ call.status \in {0, 200}) =>
              Len(call.posts) = IF HoldsKeyword(call.commit_message_raw) THEN 1 ELSE 0
        /\ (call.pc = "responded" /\ call.status = 200) =>
              ResponseBody(call) =
                 WebhookResponse(call.project_id, call.score_increase,
                                 call.commit_message_raw)

\* A step that changes call c changes no other call, and once c is awaiting
\* its POST the step keeps c's delta, its POST and its event as they were.
StepOfOneCall(c) ==
    hooks'[c] # hooks[c] =>
        /\ \A d \in Slots \ {c} : hooks'[d] = hooks[d]
        /\ hooks[c].pc = "posting" =>
              /\ hooks'[c].pc = "responded"
              /\ hooks'[c].status = 200
              /\ hooks'[c].score_increase = hooks[c].score_increase
              /\ hooks'[c].posts = hooks[c].posts
              /\ hooks'[c].project_id = hooks[c].project_id
              /\ hooks'[c].commit_message_raw = hooks[c].commit_message_raw

\* C22: webhook calls in flight together are independent: each makes its own
\* POST, one at most, and is answered with its own project id, delta and
\* message, also when another call carries the same event; and whatever
\* happens to one call, its POST failing or ending late, leaves every other
\* call as it was.
C22_CallsIndependent ==
    /\ [](\A c \in Slots : CallIsItsOwn(c))
    /\ [][\A c \in Slots : StepOfOneCall(c)]_vars

\* C22 witness: the same commit of the same project was delivered twice; the
\* second call was classified, drew its own delta, and was answered after its
\* POST failed to connect, while the first is still awaiting its POST.
C22_Witness ==
    /\ hooks[1].pc = "posting"
    /\ hooks[2].pc = "responded"
    /\ hooks[1].project_id = hooks[2].project_id
    /\ hooks[1].head_commit = hooks[2].head_commit
    /\ hooks[1].score_increase = 50
    /\ hooks[2].score_increase = 250
    /\ hooks[2].backend = "connect_error"
    /\ Len(hooks[1].posts) = 1
    /\ Len(hooks[2].posts) = 1
\* What was loaded at start-up: the dataset's columns stand for the schema,
\* feature_names for the two models and the explainer fitted on them.
Loaded == <<creator_data, feature_names>>

\* Nothing of a request is left once it has been answered: with no /score or
\* /suggest-price request at hand the request register is the idle one, and
\* a webhook slot that is free is the free slot of the start.
NothingKept ==
    /\ http.endpoint = "none" => http = Idle
    /\ \A c \in Slots : hooks[c].pc = "free" => hooks[c] = FreeSlot

RawImpact(entry) == http.explained.value[SchemaIndex(entry)]

\* C24: when more than 5 entries passed the filter, no entry left out of the
\* reasons has a strictly larger absolute impact, as the explainer gave it,
\* than an entry that is among them.
C24_TruncationKeepsLargestRaw ==
    (Explained /\ Len(http.feature_impacts) > 5) =>
        LET reasons == http.body.reasons
            entries == http.feature_impacts
            shown   == {SchemaIndex(reasons[k]) : k \in 1..Len(reasons)}
        IN  \A k \in 1..Len(entries), i \in 1..Len(reasons) :
                SchemaIndex(entries[k]) \notin shown =>
                    Abs(RawImpact(entries[k])) <= Abs(RawImpact(reasons[i]))
\* The frame the other of the two paths builds for the record at hand.
OtherPathFrame ==
    IF http.endpoint = "score" THEN PriceFrame(http.creator) ELSE ScoreFrame(http.creator)

\* C25: the vector a handler handed to its model is, column by column, the
\* vector the other path hands to its model for the same record: /score and
\* /suggest-price reconcile alike.
C25_PathsReconcileAlike ==
    Reconciled =>
        /\ http.df.columns = OtherPathFrame.columns
        /\ Len(http.df.rows) = Len(OtherPathFrame.rows)
        /\ RowValues(http.df, 1) = RowValues(OtherPathFrame, 1)

\* C25 witness: a Mobile Development record was priced on the vector /score
\* builds for it, with the 1 in the Mobile Development column.
C25_Witness ==
    /\ Reconciled
    /\ http.endpoint = "suggest-price"
    /\ http.creator.project_category = "Mobile Development"
    /\ RowValues(http.df, 1) = RowValues(ScoreFrame(http.creator), 1)
    /\ RowValues(http.df, 1)[9] = 1000

====
